---- MODULE Spec2Model ----
(***************************************************************************)
(* Model of src/main.py (ActualizaData): the daily update pipeline that    *)
(* loads db/db.parquet, fetches today's row, concatenates it, reconciles   *)
(* the table (sort, unique, forward fill) and writes the file back, with   *)
(* three attempts and a sleep after every failed attempt.                  *)
(*                                                                         *)
(* Library semantics used by the code are modelled by their contract:      *)
(*   DataFrame.sort('date')            maintain_order defaults to False:   *)
(*                                     rows of equal date come out in any  *)
(*                                     order;                              *)
(*   DataFrame.unique(subset, keep='last')  maintain_order defaults to     *)
(*                                     False: the kept rows come out in    *)
(*                                     any order;                          *)
(*   DataFrame.fill_null('forward')    fills in the order of the rows as   *)
(*                                     they are;                           *)
(*   DataFrame.write_parquet(path)     writes into the destination file    *)
(*                                     itself (no temporary file).         *)
(***************************************************************************)
EXTENDS Integers, Sequences, FiniteSets, TLC

\* ---------------------------------------------------------------- bounds
\* dates are 1..MaxDate
MaxDate == 3
\* rows of the file when the process starts
MaxRows == 1
\* rows of the historical table given to the reconciliation alone
MaxHist == 2
\* values a data source returns are 1..MaxVal
MaxVal == 2
\* the most entries the logs folder holds
MaxArchivos == 2

\* ------------------------------------------------------ program constants
\* range(1, 4): the attempts are 1, 2, 3
MaxIntentos == 3
\* None
Null == 0

\* ------------------------------------------------------------------ data
CryptoCols == {"price", "total_volume", "market_cap"}

tickers == {"price_gold", "stock_index_dowjones", "stock_index_sp500",
            "rate_US10Y", "stock_index_ni225"}

\* tickers.items(): the dict keeps the order in which it was written
TickersEnOrden == <<"price_gold", "stock_index_dowjones", "stock_index_sp500",
                    "rate_US10Y", "stock_index_ni225">>

Columns == {"date"} \cup CryptoCols \cup tickers

Dates == 1..MaxDate

\* date.weekday(): Monday is 0, Sunday is 6. Date 1 is a Friday.
weekday(d) == (d + 3) % 7

EsFinDeSemana(d) == weekday(d) \in {5, 6}

\* the dict built by retorna_data_bitcoin from a well-formed response whose
\* first samples are v, v+1, v+2
DictBitcoin(today, v) ==
    [c \in {"date"} \cup CryptoCols |->
        IF c = "date" THEN today
        ELSE IF c = "price" THEN v
        ELSE IF c = "total_volume" THEN v + 1
        ELSE v + 2]

\* the dict returned by retorna_data_instrumentos on a weekend
DictNulos == [i \in tickers |-> Null]

\* the dict built by the download loop: vacios are the tickers whose response
\* was empty, v the value of the others
DictInstrumentos(vacios, v) == [i \in tickers |-> IF i \in vacios THEN Null ELSE v]

\* the sets of tickers whose download comes back empty on one day: none, one
\* of them, all of them
RespuestasVacias == {{}, tickers} \cup {{t} : t \in tickers}

\* data_bitcoin | data_instrumentos
Union(d1, d2) ==
    [c \in (DOMAIN d1) \cup (DOMAIN d2) |-> IF c \in DOMAIN d2 THEN d2[c] ELSE d1[c]]

\* ------------------------------------------------------- reconciliation
Bijections(S, T) == {f \in [S -> T] : \A t \in T : \E s \in S : f[s] = t}

\* df.sort('date'): every arrangement of the rows that is ascending by date
Sort(df) ==
    LET n == Len(df)
    IN  {s \in {[i \in 1..n |-> df[p[i]]] : p \in Bijections(1..n, 1..n)} :
            \A i \in 1..n : \A j \in 1..n : i < j => s[i].date <= s[j].date}

\* mutant of KeptLast: keep='none', the rows whose date no other row has
KeptNone(df) ==
    {i \in 1..Len(df) : \A j \in 1..Len(df) : j # i => df[j].date # df[i].date}

\* the rows kept by keep='last': the last row of every date
KeptLast(df) ==
    {i \in 1..Len(df) : \A j \in 1..Len(df) : j > i => df[j].date # df[i].date}

\* df.unique(subset=['date'], keep='last'): the kept rows, in any order
Unique(df) ==
    LET K == KeptLast(df)
        m == Cardinality(K)
    IN  {[k \in 1..m |-> df[f[k]]] : f \in Bijections(1..m, K)}

RECURSIVE LastNonNull(_, _, _)
LastNonNull(df, i, c) ==
    IF i = 0 THEN Null
    ELSE IF df[i][c] # Null THEN df[i][c]
    ELSE LastNonNull(df, i - 1, c)

\* df.fill_null(strategy='forward')
FillForward(df) ==
    [i \in 1..Len(df) |-> [c \in DOMAIN df[i] |-> LastNonNull(df, i, c)]]

\* the tables paso_final_actualizar(df) can return
paso_final_actualizar(df) ==
    {FillForward(u) : u \in UNION {Unique(s) : s \in Sort(df)}}

\* pl.concat([df_existente, df_hoy], how='vertical')
concatenar(df_existente, df_hoy) == df_existente \o df_hoy

\* ------------------------------------------------------------- the state
VARIABLES
    file,          \* db/db.parquet: [ok |-> it can be read, tabla |-> its rows]
    file0,         \* history: the file when the process started
    clock,         \* today's date in America/Caracas
    pc,            \* where the process is
    intento,       \* the loop variable of pipeline_principal
    df,            \* the frame flowing through the .pipe chain
    data_bitcoin,  \* the dict returned by retorna_data_bitcoin in this attempt
    df_hoy,        \* the frame returned by obtener_data_hoy in this attempt
    etapas,        \* history: the stages entered in this attempt, in order
    contactos,     \* history: requests sent to a data source in this attempt
    fallo_en,      \* history: the stage that raised in this attempt, "" if none
    stats,         \* history: counters over the whole run
    inst,          \* retorna_data_instrumentos in this attempt: its today, and
                   \* history: the downloads per ticker, the pacing sleeps and
                   \* the first value of every response (Null: empty response)
    logs,          \* the logs folder: whether it exists, its entries, and
                   \* history: its entries at start and what the cleanup did
    rc             \* the reconciliation of a table with a row, applied twice

vars == <<file, file0, clock, pc, intento, df, data_bitcoin, df_hoy, etapas,
          contactos, fallo_en, stats, inst, logs, rc>>

\* ------------------------------------------------------ limpia_logs_viejos
dias_limite == 15

\* a file name is a sequence of pieces: a piece of text that holds neither "_"
\* nor ".log" inside, or a well-formed date YYYY-MM-DD (d: its day number)
Tx(s) == [t |-> "texto", s |-> s, d |-> 0]

Fe(n) == [t |-> "fecha", s |-> "", d |-> n]

\* "log_actualiza_db_"
Prefijo == <<Tx("log"), Tx("_"), Tx("actualiza"), Tx("_"), Tx("db"), Tx("_")>>

\* ".log"
Sufijo == <<Tx(".log")>>

\* str.startswith
startswith(s, p) == Len(s) >= Len(p) /\ SubSeq(s, 1, Len(p)) = p

\* str.endswith
endswith(s, p) == Len(s) >= Len(p) /\ SubSeq(s, Len(s) - Len(p) + 1, Len(s)) = p

\* str.split("_"): the parts between the underscores, empty parts included
split(s) ==
    LET I == {i \in 1..Len(s) : s[i] = Tx("_")}
        n == Cardinality(I)
        \* the position of the k-th underscore; 0 and Len(s) + 1 stand for the ends
        pos(k) == IF k = 0 THEN 0
                  ELSE IF k = n + 1 THEN Len(s) + 1
                  ELSE CHOOSE i \in I : Cardinality({j \in I : j < i}) = k - 1
    IN  [k \in 1..(n + 1) |-> SubSeq(s, pos(k - 1) + 1, pos(k) - 1)]

\* str.replace(".log", ""): every ".log" taken out
replace(s) == SelectSeq(s, LAMBDA x : x # Tx(".log"))

\* datetime.strptime(fecha_str, "%Y-%m-%d").date(): raises unless the string is
\* one date
strptime(s) ==
    IF Len(s) = 1 /\ s[1].t = "fecha" THEN [ok |-> TRUE, fecha |-> s[1].d]
    ELSE [ok |-> FALSE, fecha |-> 0]

\* archivo.is_file() and name.startswith(...) and name.endswith(".log")
Candidato(a) ==
    a.is_file /\ startswith(a.name, Prefijo) /\ endswith(a.name, Sufijo)

\* partes = name.split("_"); fecha_str = partes[3].replace(".log", ""); strptime
fecha_log(a) == strptime(replace(split(a.name)[4]))

\* the entries on which the try block raises at strptime
FechaError(a) == Candidato(a) /\ ~fecha_log(a).ok

\* mutant of Viejo: a log of exactly dias_limite days is old too
ViejoDesdeLimite(fecha, hoy) == hoy - fecha >= dias_limite

\* diferencia = (hoy - fecha_log).days; diferencia > dias_limite
Viejo(fecha, hoy) == hoy - fecha > dias_limite

\* the entries on which archivo.unlink() is called
ParaBorrar(a, hoy) ==
    Candidato(a) /\ \E f \in {fecha_log(a)} : f.ok /\ Viejo(f.fecha, hoy)

\* the folder before the cleanup ran
Carpeta(existe, entradas) ==
    [existe |-> existe, carpeta |-> entradas, carpeta0 |-> entradas, hoy |-> Null,
     eliminados |-> 0, errores |-> 0, hecho |-> FALSE]

\* limpia_logs_viejos(): nothing without the folder; otherwise every entry goes
\* through the loop body, whose try/except keeps an error of one entry from the
\* others. fallan are the entries whose unlink() raises.
limpia_logs_viejos(l, hoy) ==
    IF ~l.existe THEN {[l EXCEPT !.hoy = hoy, !.hecho = TRUE]}
    ELSE UNION {{[l EXCEPT !.carpeta = @ \ (B \ fallan),
                           !.eliminados = Cardinality(B \ fallan),
                           !.errores = Cardinality(E) + Cardinality(fallan),
                           !.hoy = hoy,
                           !.hecho = TRUE] : fallan \in SUBSET B} :
                   B \in {{a \in l.carpeta : ParaBorrar(a, hoy)}},
                   E \in {{a \in l.carpeta : FechaError(a)}}}

Corrupto == [ok |-> FALSE, tabla |-> <<>>]

Archivo(t) == [ok |-> TRUE, tabla |-> t]

\* a row as the program builds it: crypto sample v, and the instruments either
\* all observed (value w) or all null
Fila(d, v, w) ==
    Union(DictBitcoin(d, v), IF w = Null THEN DictNulos ELSE DictInstrumentos({}, w))

\* the rows of earlier days: a crypto sample no fetch of this run returns,
\* instruments null or 1
FilasHist == {Fila(d, MaxVal + 1, w) : d \in Dates, w \in {Null, 1}}

\* the tables the file holds when the process starts: up to MaxRows rows, one
\* row per date, ascending
TablasIniciales ==
    UNION {{t \in [1..n -> FilasHist] :
               \A i \in 1..n : \A j \in 1..n : i < j => t[i].date < t[j].date} :
           n \in 0..MaxRows}

StatsCero ==
    [intentos |-> 0, cargas |-> 0, persistir_llamadas |-> 0, persistir_ok |-> 0,
     fallos |-> 0, fallos_obtener |-> 0, criticos |-> 0, sleeps |-> 0,
     avisos |-> 0, limpiezas |-> 0]

\* retorna_data_instrumentos not called yet in this attempt
InstCero == [today |-> Null, descargas |-> [t \in tickers |-> 0], sleeps |-> 0,
             respuestas |-> [t \in tickers |-> Null]]

RcCero == [paso |-> 0, T |-> <<>>, fila |-> <<>>, R1 |-> <<>>, R2 |-> <<>>]

Init ==
    /\ file \in {Corrupto} \cup {Archivo(t) : t \in TablasIniciales}
    /\ file0 = file
    /\ clock \in Dates
    /\ \A i \in 1..Len(file.tabla) : file.tabla[i].date <= clock
    /\ pc = "inicio"
    /\ intento = 1
    /\ df = <<>>
    /\ data_bitcoin = <<>>
    /\ df_hoy = <<>>
    /\ etapas = <<>>
    /\ contactos = 0
    /\ fallo_en = ""
    /\ stats = StatsCero
    /\ inst = InstCero
    \* the run starts with an empty logs folder; SpecLimpia runs the cleanup
    \* on every folder
    /\ logs = Carpeta(TRUE, {})
    /\ rc = RcCero

Bump(st, f) == [st EXCEPT ![f] = @ + 1]

\* ------------------------------------------------------- pipeline_principal
\* an exception raised by a stage reaches "except Exception" of the loop
Raise(etapa) == pc' = "except" /\ fallo_en' = etapa

\* for intento in range(1, 4): try: logger.info("Inicio ...")
IniciarIntento ==
    /\ pc = "inicio"
    /\ pc' = "cargar"
    /\ df' = <<>> /\ data_bitcoin' = <<>> /\ df_hoy' = <<>>
    /\ etapas' = <<>> /\ contactos' = 0 /\ fallo_en' = ""
    /\ stats' = Bump(stats, "intentos")
    /\ inst' = InstCero
    /\ UNCHANGED <<logs, rc, file, file0, clock, intento>>

\* cargar_data_existente(ruta_data): pl.read_parquet succeeds
CargarOk ==
    /\ pc = "cargar"
    /\ file.ok
    /\ df' = file.tabla
    /\ etapas' = Append(etapas, "cargar")
    /\ stats' = Bump(stats, "cargas")
    /\ pc' = "bitcoin"
    /\ UNCHANGED <<logs, rc, inst, fallo_en, file, file0, clock, intento, data_bitcoin, df_hoy, contactos>>

\* mutant of CargarFalla: the error of the load is logged and not raised again,
\* and the chain goes on with an empty frame
CargarFallaSigue ==
    /\ pc = "cargar"
    /\ df' = <<>>
    /\ etapas' = Append(etapas, "cargar")
    /\ stats' = Bump(Bump(stats, "cargas"), "fallos")
    /\ fallo_en' = "cargar"
    /\ pc' = "bitcoin"
    /\ UNCHANGED <<logs, rc, inst, file, file0, clock, intento, data_bitcoin, df_hoy, contactos>>

\* mutant of CargarFalla: the read that raised is made a second time before the
\* error is raised again
CargarFallaRelee ==
    /\ pc = "cargar"
    /\ etapas' = Append(etapas, "cargar")
    /\ stats' = Bump(Bump(Bump(stats, "cargas"), "cargas"), "fallos")
    /\ Raise("cargar")
    /\ UNCHANGED <<logs, rc, inst, file, file0, clock, intento, df, data_bitcoin, df_hoy, contactos>>

\* cargar_data_existente(ruta_data): pl.read_parquet raises (unreadable file,
\* or an I/O error on a readable one)
CargarFalla ==
    /\ pc = "cargar"
    /\ etapas' = Append(etapas, "cargar")
    /\ stats' = Bump(Bump(stats, "cargas"), "fallos")
    /\ Raise("cargar")
    /\ UNCHANGED <<logs, rc, inst, file, file0, clock, intento, df, data_bitcoin, df_hoy, contactos>>

\* obtener_data_hoy -> retorna_data_bitcoin: the request returns well-formed data
BitcoinOk ==
    /\ pc = "bitcoin"
    /\ \E v \in 1..MaxVal : data_bitcoin' = DictBitcoin(clock, v)
    /\ etapas' = Append(etapas, "obtener")
    /\ contactos' = contactos + 1
    /\ pc' = "instrumentos"
    /\ UNCHANGED <<logs, rc, inst, fallo_en, file, file0, clock, intento, df, df_hoy, stats>>

\* mutant of BitcoinFalla: the error of the fetch is logged and not raised again,
\* and obtener_data_hoy returns a frame without rows
BitcoinFallaTragada ==
    /\ pc = "bitcoin"
    /\ etapas' = Append(etapas, "obtener")
    /\ contactos' = contactos + 1
    /\ stats' = Bump(stats, "fallos_obtener")
    /\ df_hoy' = <<>>
    /\ pc' = "concatenar"
    /\ UNCHANGED <<logs, rc, inst, fallo_en, file, file0, clock, intento, df, data_bitcoin>>

\* mutant of BitcoinFalla: the error of the fetch is logged and not raised again,
\* and obtener_data_hoy goes on to the instruments without crypto values
BitcoinFallaParcial ==
    /\ pc = "bitcoin"
    /\ etapas' = Append(etapas, "obtener")
    /\ contactos' = contactos + 1
    /\ stats' = Bump(Bump(stats, "fallos_obtener"), "fallos")
    /\ fallo_en' = "obtener"
    /\ pc' = "instrumentos"
    /\ UNCHANGED <<logs, rc, inst, file, file0, clock, intento, df, data_bitcoin, df_hoy>>

\* retorna_data_bitcoin: requests.get raises, or the response is malformed
BitcoinFalla ==
    /\ pc = "bitcoin"
    /\ etapas' = Append(etapas, "obtener")
    /\ contactos' = contactos + 1
    /\ stats' = Bump(Bump(stats, "fallos_obtener"), "fallos")
    /\ Raise("obtener")
    /\ UNCHANGED <<logs, rc, inst, file, file0, clock, intento, df, data_bitcoin, df_hoy>>

\* mutant of InstrumentosFinDeSemana: no weekday test, the five downloads run
\* on a weekend too
InstrumentosFinDeSemanaDescarga ==
    /\ pc = "instrumentos"
    /\ EsFinDeSemana(clock)
    /\ df_hoy' = <<Union(data_bitcoin, DictInstrumentos({}, 1))>>
    /\ inst' = [today |-> clock, descargas |-> [t \in tickers |-> 1],
                sleeps |-> Cardinality(tickers),
                respuestas |-> [t \in tickers |-> 1]]
    /\ contactos' = contactos + Cardinality(tickers)
    /\ pc' = "concatenar"
    /\ UNCHANGED <<logs, rc, fallo_en, file, file0, clock, intento, df, data_bitcoin, etapas, stats>>

\* retorna_data_instrumentos on a Saturday or Sunday, then the dict union and
\* pl.DataFrame(data_combinado)
InstrumentosFinDeSemana ==
    /\ pc = "instrumentos"
    /\ EsFinDeSemana(clock)
    /\ df_hoy' = <<Union(data_bitcoin, DictNulos)>>
    /\ inst' = [InstCero EXCEPT !.today = clock]
    /\ pc' = "concatenar"
    /\ UNCHANGED <<logs, rc, fallo_en, file, file0, clock, intento, df, data_bitcoin, etapas, contactos, stats>>

\* mutant of InstrumentosOk: one empty response makes the function return the
\* dict of nulls
InstrumentosOkAnula ==
    /\ pc = "instrumentos"
    /\ ~EsFinDeSemana(clock)
    /\ \E vacios \in RespuestasVacias : \E v \in 1..MaxVal :
          /\ df_hoy' = <<Union(data_bitcoin,
                               IF vacios = {} THEN DictInstrumentos(vacios, v)
                               ELSE DictNulos)>>
          /\ inst' = [today |-> clock, descargas |-> [t \in tickers |-> 1],
                      sleeps |-> Cardinality(tickers),
                      respuestas |-> [t \in tickers |-> IF t \in vacios THEN Null ELSE v]]
    /\ contactos' = contactos + Cardinality(tickers)
    /\ pc' = "concatenar"
    /\ UNCHANGED <<logs, rc, fallo_en, file, file0, clock, intento, df, data_bitcoin, etapas, stats>>

\* retorna_data_instrumentos on a business day: five downloads, each empty or
\* not, then the dict union and pl.DataFrame(data_combinado)
InstrumentosOk ==
    /\ pc = "instrumentos"
    /\ ~EsFinDeSemana(clock)
    /\ \E vacios \in RespuestasVacias : \E v \in 1..MaxVal :
          /\ df_hoy' = <<Union(data_bitcoin, DictInstrumentos(vacios, v))>>
          /\ inst' = [today |-> clock, descargas |-> [t \in tickers |-> 1],
                      sleeps |-> Cardinality(tickers),
                      respuestas |-> [t \in tickers |-> IF t \in vacios THEN Null ELSE v]]
    /\ contactos' = contactos + Cardinality(tickers)
    /\ pc' = "concatenar"
    /\ UNCHANGED <<logs, rc, fallo_en, file, file0, clock, intento, df, data_bitcoin, etapas, stats>>

\* retorna_data_instrumentos: the k-th download raises, after k-1 downloads
\* each followed by time.sleep(15)
InstrumentosFalla ==
    /\ pc = "instrumentos"
    /\ ~EsFinDeSemana(clock)
    /\ \E k \in 1..Len(TickersEnOrden) :
          /\ contactos' = contactos + k
          /\ inst' = [today |-> clock,
                      descargas |-> [t \in tickers |->
                          IF \E j \in 1..k : TickersEnOrden[j] = t THEN 1 ELSE 0],
                      sleeps |-> k - 1,
                      respuestas |-> [t \in tickers |-> Null]]
    /\ stats' = Bump(Bump(stats, "fallos_obtener"), "fallos")
    /\ Raise("obtener")
    /\ UNCHANGED <<logs, rc, file, file0, clock, intento, df, data_bitcoin, df_hoy, etapas>>

\* concatenar(df, obtener_data_hoy()): pl.concat succeeds
ConcatenarOk ==
    /\ pc = "concatenar"
    /\ df' = concatenar(df, df_hoy)
    /\ etapas' = Append(etapas, "concatenar")
    /\ pc' = "actualizar"
    /\ UNCHANGED <<logs, rc, inst, fallo_en, file, file0, clock, intento, data_bitcoin, df_hoy, contactos, stats>>

\* concatenar: pl.concat raises (the schemas of the two frames differ)
ConcatenarFalla ==
    /\ pc = "concatenar"
    /\ etapas' = Append(etapas, "concatenar")
    /\ stats' = Bump(stats, "fallos")
    /\ Raise("concatenar")
    /\ UNCHANGED <<logs, rc, inst, file, file0, clock, intento, df, data_bitcoin, df_hoy, contactos>>

\* actualizar(df): paso_final_actualizar returns
ActualizarOk ==
    /\ pc = "actualizar"
    /\ df' \in paso_final_actualizar(df)
    /\ etapas' = Append(etapas, "actualizar")
    /\ pc' = "persistir"
    /\ UNCHANGED <<logs, rc, inst, fallo_en, file, file0, clock, intento, data_bitcoin, df_hoy, contactos, stats>>

\* actualizar(df): paso_final_actualizar raises
ActualizarFalla ==
    /\ pc = "actualizar"
    /\ etapas' = Append(etapas, "actualizar")
    /\ stats' = Bump(stats, "fallos")
    /\ Raise("actualizar")
    /\ UNCHANGED <<logs, rc, inst, file, file0, clock, intento, df, data_bitcoin, df_hoy, contactos>>

\* persistir(df, ruta_data): df.write_parquet(ruta) completes
PersistirOk ==
    /\ pc = "persistir"
    /\ file' = Archivo(df)
    /\ etapas' = Append(etapas, "persistir")
    /\ stats' = [stats EXCEPT !.persistir_llamadas = @ + 1, !.persistir_ok = @ + 1]
    /\ pc' = "done"
    /\ UNCHANGED <<logs, rc, inst, fallo_en, file0, clock, intento, df, data_bitcoin, df_hoy, contactos>>

\* mutant of PersistirFalla: the error of the write is not caught by the loop
\* and leaves pipeline_principal
PersistirFallaEscapa ==
    /\ pc = "persistir"
    /\ file' \in {file, Corrupto}
    /\ etapas' = Append(etapas, "persistir")
    /\ stats' = Bump(Bump(stats, "persistir_llamadas"), "fallos")
    /\ fallo_en' = "persistir"
    /\ pc' = "crash"
    /\ UNCHANGED <<logs, rc, inst, file0, clock, intento, df, data_bitcoin, df_hoy, contactos>>

\* persistir(df, ruta_data): df.write_parquet(ruta) raises, either before the
\* destination was opened (file untouched) or part-way through the write
\* (the destination holds a truncated parquet file)
PersistirFalla ==
    /\ pc = "persistir"
    /\ file' \in {file, Corrupto}
    /\ etapas' = Append(etapas, "persistir")
    /\ stats' = Bump(Bump(stats, "persistir_llamadas"), "fallos")
    /\ Raise("persistir")
    /\ UNCHANGED <<logs, rc, inst, file0, clock, intento, df, data_bitcoin, df_hoy, contactos>>

\* mutant of Except: the loop is range(1, 5)
ExceptCuatro ==
    /\ pc = "except"
    /\ stats' = [stats EXCEPT !.criticos = @ + 1, !.sleeps = @ + 1]
    /\ IF intento < MaxIntentos + 1
         THEN intento' = intento + 1 /\ pc' = "inicio"
         ELSE intento' = intento /\ pc' = "agotado"
    /\ UNCHANGED <<logs, rc, inst, fallo_en, file, file0, clock, df, data_bitcoin, df_hoy, etapas, contactos>>

\* mutant of Except: the handler calls pipeline_principal() again, which starts
\* over at attempt 1
ExceptDeNuevo ==
    /\ pc = "except"
    /\ stats' = StatsCero
    /\ intento' = 1
    /\ pc' = "inicio"
    /\ UNCHANGED <<logs, rc, inst, fallo_en, file, file0, clock, df, data_bitcoin, df_hoy, etapas, contactos>>

\* mutant of Except: no sleep after the failure of the last attempt
ExceptSinUltimoSleep ==
    /\ pc = "except"
    /\ stats' = [stats EXCEPT !.criticos = @ + 1,
                              !.sleeps = IF intento < MaxIntentos THEN @ + 1 ELSE @]
    /\ IF intento < MaxIntentos
         THEN intento' = intento + 1 /\ pc' = "inicio"
         ELSE intento' = intento /\ pc' = "agotado"
    /\ UNCHANGED <<logs, rc, inst, fallo_en, file, file0, clock, df, data_bitcoin, df_hoy, etapas, contactos>>

\* except Exception: logger.critical(...); time.sleep(60); next iteration of
\* range(1, 4), or the loop ends
Except ==
    /\ pc = "except"
    /\ stats' = [stats EXCEPT !.criticos = @ + 1, !.sleeps = @ + 1]
    /\ IF intento < MaxIntentos
         THEN intento' = intento + 1 /\ pc' = "inicio"
         ELSE intento' = intento /\ pc' = "agotado"
    /\ UNCHANGED <<logs, rc, inst, fallo_en, file, file0, clock, df, data_bitcoin, df_hoy, etapas, contactos>>

\* logger.info("Pipeline completado exitosamente"); return
Completado ==
    /\ pc = "done"
    /\ pc' = "limpiar"
    /\ UNCHANGED <<logs, rc, inst, fallo_en, file, file0, clock, intento, df, data_bitcoin, df_hoy, etapas,
                   contactos, stats>>

\* logger.warning("Pipeline fallo tras 3 intentos consecutivos"); return
Agotado ==
    /\ pc = "agotado"
    /\ stats' = Bump(stats, "avisos")
    /\ pc' = "limpiar"
    /\ UNCHANGED <<logs, rc, inst, fallo_en, file, file0, clock, intento, df, data_bitcoin, df_hoy, etapas,
                   contactos>>

\* __main__: limpia_logs_viejos(); sys.exit()
Limpiar ==
    /\ pc = "limpiar"
    /\ stats' = Bump(stats, "limpiezas")
    /\ logs' \in limpia_logs_viejos(logs, clock)
    /\ pc' = "exit"
    /\ UNCHANGED <<rc, inst, fallo_en, file, file0, clock, intento, df, data_bitcoin, df_hoy, etapas,
                   contactos>>

\* midnight passes in America/Caracas while the process runs
Tick ==
    /\ pc # "exit"
    /\ clock < MaxDate
    /\ clock' = clock + 1
    /\ UNCHANGED <<logs, rc, inst, fallo_en, file, file0, pc, intento, df, data_bitcoin, df_hoy, etapas,
                   contactos, stats>>

Paso ==
    \/ IniciarIntento
    \/ CargarOk \/ CargarFalla
    \/ BitcoinOk \/ BitcoinFalla
    \/ InstrumentosFinDeSemana \/ InstrumentosOk \/ InstrumentosFalla
    \/ ConcatenarOk \/ ConcatenarFalla
    \/ ActualizarOk \/ ActualizarFalla
    \/ PersistirOk \/ PersistirFalla
    \/ Except \/ Completado \/ Agotado \/ Limpiar

Next == Paso \/ Tick

Spec == Init /\ [][Next]_vars

\* the scheduler runs the process: every stage call and every sleep returns
FairSpec == Spec /\ WF_vars(Paso)

\* ------------------------------------- reconciliation as a pure function
\* the rows obtener_data_hoy can build
FilasNuevas ==
    {Union(DictBitcoin(d, v), DictNulos) : d \in Dates, v \in 1..MaxVal}
    \cup {Union(DictBitcoin(d, v), DictInstrumentos(vacios, v)) :
            d \in Dates, v \in 1..MaxVal, vacios \in RespuestasVacias}

\* historical tables in any row order, dates repeated or not
TablasCualesquiera == UNION {[1..n -> FilasHist] : n \in 0..MaxHist}

InitReconcile ==
    /\ file = Corrupto /\ file0 = Corrupto /\ clock = 1 /\ pc = "reconcile"
    /\ intento = 1 /\ df = <<>> /\ data_bitcoin = <<>> /\ df_hoy = <<>>
    /\ etapas = <<>> /\ contactos = 0 /\ fallo_en = "" /\ stats = StatsCero
    /\ inst = InstCero
    /\ logs = Carpeta(TRUE, {})
    /\ \E T \in TablasCualesquiera : \E fila \in FilasNuevas :
           rc = [RcCero EXCEPT !.T = T, !.fila = fila]

\* reconcile(T, row): concatenar, then actualizar (paso_final_actualizar)
Reconcile(T, fila) == paso_final_actualizar(concatenar(T, <<fila>>))

Reconcile1 ==
    /\ pc = "reconcile" /\ rc.paso = 0
    /\ \E R \in Reconcile(rc.T, rc.fila) : rc' = [rc EXCEPT !.paso = 1, !.R1 = R]
    /\ UNCHANGED <<file, file0, clock, pc, intento, df, data_bitcoin, df_hoy, etapas,
                   contactos, fallo_en, stats, inst, logs>>

Reconcile2 ==
    /\ pc = "reconcile" /\ rc.paso = 1
    /\ \E R \in Reconcile(rc.R1, rc.fila) : rc' = [rc EXCEPT !.paso = 2, !.R2 = R]
    /\ UNCHANGED <<file, file0, clock, pc, intento, df, data_bitcoin, df_hoy, etapas,
                   contactos, fallo_en, stats, inst, logs>>

NextReconcile == Reconcile1 \/ Reconcile2

SpecReconcile == InitReconcile /\ [][NextReconcile]_vars

\* one reconciliation of a table and a row
SpecReconcileUna == InitReconcile /\ [][Reconcile1]_vars

\* ------------------------------------------ the cleanup on any logs folder
\* the dates in log names: around dias_limite days before the dates of the
\* run, and a date of the run
FechasLog == {h - dias_limite - 1 : h \in Dates} \cup {h - dias_limite : h \in Dates} \cup {1}

\* names of the pipeline's logs, names that look like them, other names
Nombres ==
    UNION {{Prefijo \o <<Fe(f)>> \o Sufijo,
            Prefijo \o <<Fe(f), Tx("_"), Tx("x")>> \o Sufijo,
            Prefijo \o <<Fe(f)>> \o Sufijo \o Sufijo,
            Prefijo \o <<Fe(f)>>,
            <<Tx("x")>> \o Prefijo \o <<Fe(f)>> \o Sufijo} : f \in FechasLog}
    \cup {Prefijo \o <<Tx("x")>> \o Sufijo, Prefijo \o Sufijo}

\* regular files of any of the names, directories named as a log
Entradas ==
    {[name |-> n, is_file |-> TRUE] : n \in Nombres}
    \cup {[name |-> Prefijo \o <<Fe(f)>> \o Sufijo, is_file |-> FALSE] : f \in FechasLog}

\* the sets of n entries at most, one entry per name
RECURSIVE CarpetasHasta(_)
CarpetasHasta(n) ==
    IF n = 0 THEN {{}}
    ELSE LET P == CarpetasHasta(n - 1)
         IN  P \cup UNION {{c \cup {a} :
                                a \in {e \in Entradas : \A x \in c : x.name # e.name}} :
                            c \in P}

Carpetas == CarpetasHasta(MaxArchivos)

InitLimpia ==
    /\ file = Corrupto /\ file0 = Corrupto /\ pc = "limpiar"
    /\ intento = 1 /\ df = <<>> /\ data_bitcoin = <<>> /\ df_hoy = <<>>
    /\ etapas = <<>> /\ contactos = 0 /\ fallo_en = "" /\ stats = StatsCero
    /\ inst = InstCero /\ rc = RcCero
    /\ clock \in Dates
    /\ \/ logs = Carpeta(FALSE, {})
       \/ \E c \in Carpetas : logs = Carpeta(TRUE, c)

SpecLimpia == InitLimpia /\ [][Limpiar]_vars

\* ---------------------------------------------------------------- claims
Orden == <<"cargar", "obtener", "concatenar", "actualizar", "persistir">>

Ascendente(t) ==
    \A i \in 1..Len(t) : \A j \in 1..Len(t) : i < j => t[i].date <= t[j].date

\* C1: when the fetch stage has failed in each of the 3 attempts, persistir was
\* never called in the run and the file is what it was when the run started.
RetryExhaustion ==
    stats.fallos_obtener = MaxIntentos =>
        /\ stats.persistir_llamadas = 0
        /\ file = file0

\* the run is over, the fetch failed three times on a readable file
RetryExhaustionWitness ==
    pc = "exit" /\ stats.fallos_obtener = MaxIntentos /\ file.ok /\ stats.cargas = MaxIntentos

\* C2: a write that fails part-way leaves a file that still loads: no step
\* turns a readable file into an unreadable one.
AtomicPersistence == [][file.ok => file'.ok]_vars

\* C3: in every attempt the stages entered are a prefix of load, fetch, merge,
\* reconcile, persist; nothing is entered after the stage that raised;
\* persistir is reached only with the four earlier stages done on the loaded
\* table and the fetched row; a failed load contacts no data source.
NoPartialSuccess ==
    /\ Len(etapas) <= Len(Orden)
    /\ \A i \in 1..Len(etapas) : etapas[i] = Orden[i]
    /\ fallo_en # "" => etapas # <<>> /\ etapas[Len(etapas)] = fallo_en
    /\ fallo_en = "cargar" => contactos = 0
    /\ pc = "persistir" =>
          /\ fallo_en = ""
          /\ etapas = SubSeq(Orden, 1, 4)
          /\ file.ok
          /\ Len(df_hoy) = 1
          /\ df \in paso_final_actualizar(concatenar(file.tabla, df_hoy))

\* an attempt reaches persistir after an attempt whose load failed
NoPartialSuccessWitness ==
    pc = "persistir" /\ intento = 2 /\ stats.cargas = 2 /\ stats.fallos_obtener = 0
        /\ stats.persistir_llamadas = 0 /\ Len(file.tabla) = 1

\* C4: at most 3 attempts start; attempt k+1 starts only after k attempts
\* failed; after the third failure nothing starts and the run is Failed.
BoundedRetry ==
    /\ intento \in 1..MaxIntentos
    /\ stats.intentos <= MaxIntentos
    /\ stats.intentos <= stats.fallos + 1
    /\ stats.fallos <= stats.intentos
    /\ stats.fallos = MaxIntentos => pc \in {"except", "agotado", "limpiar", "exit"}
    /\ pc = "agotado" => stats.fallos = MaxIntentos /\ stats.intentos = MaxIntentos
    /\ (pc \in {"limpiar", "exit"} /\ stats.persistir_ok = 0) => stats.avisos = 1

\* the run is in the terminal Failed state
BoundedRetryWitness == pc = "agotado" /\ stats.intentos = MaxIntentos

\* C5: at Done persistir has completed once in the run and the file has a row
\* of the fetched date with the fetched price, total_volume and market_cap.
OnSuccess ==
    pc = "done" =>
        /\ stats.persistir_ok = 1
        /\ \E i \in 1..Len(file.tabla) :
              /\ file.tabla[i].date = df_hoy[1].date
              /\ \A c \in CryptoCols : file.tabla[i][c] = df_hoy[1][c]

\* C6: no failure leaves pipeline_principal: each is logged at critical
\* severity by the handler, the process always has a next step until it
\* exits, and it exits after limpia_logs_viejos has run.
NeverEscalated ==
    /\ pc # "crash"
    /\ pc # "except" => stats.criticos = stats.fallos
    /\ pc = "except" => stats.criticos + 1 = stats.fallos
    /\ pc # "exit" => ENABLED Paso
    /\ pc = "exit" => stats.limpiezas = 1

\* the process exited after three failures at different stages
NeverEscalatedWitness ==
    /\ pc = "exit" /\ stats.fallos = MaxIntentos
    /\ stats.persistir_llamadas = 1 /\ stats.fallos_obtener = 1 /\ ~file.ok

\* C7: every run reaches Done or the terminal Failed state.
Termination == <>(pc \in {"done", "agotado"})

\* a run that succeeds in its last attempt
TerminationWitness == pc = "done" /\ intento = MaxIntentos /\ stats.fallos = 2

FechasDe(t) == {t[i].date : i \in 1..Len(t)}

\* C8: when T has a row of the date of the new row, the reconciled table has
\* exactly one row of that date and it carries the values of the new row.
DedupKeepsLatest ==
    (rc.paso >= 1 /\ rc.fila.date \in FechasDe(rc.T)) =>
        /\ Cardinality({i \in 1..Len(rc.R1) : rc.R1[i].date = rc.fila.date}) = 1
        /\ \A i \in 1..Len(rc.R1) :
              rc.R1[i].date = rc.fila.date =>
                  \A c \in Columns : rc.fila[c] # Null => rc.R1[i][c] = rc.fila[c]

SortInvariant == rc.paso >= 1 => Ascendente(rc.R1)

\* the table handed to paso_final_actualizar by the first reconciliation
Entrada == concatenar(rc.T, <<rc.fila>>)

UnaFilaPorFecha(t) ==
    \A i \in 1..Len(t) : \A j \in 1..Len(t) : t[i].date = t[j].date => i = j

\* the value of column c in the row of t with the latest date up to d that has
\* one, Null when no such row has one (t has one row per date)
UltimoObservado(t, d, c) ==
    LET S == {i \in 1..Len(t) : t[i].date <= d /\ t[i][c] # Null}
    IN  IF S = {} THEN Null
        ELSE LET i == CHOOSE k \in S : \A j \in S : t[j].date <= t[k].date
             IN  t[i][c]

\* C11: in the reconciled table every column holds, at every date, the most
\* recent value observed in that column up to that date, and null where none
\* was observed (stated for inputs with one row per date).
ForwardFillCorrect ==
    (rc.paso >= 1 /\ UnaFilaPorFecha(Entrada)) =>
        \A k \in 1..Len(rc.R1) : \A c \in CryptoCols \cup tickers :
            rc.R1[k][c] = UltimoObservado(Entrada, rc.R1[k].date, c)

\* C12: when retorna_data_instrumentos reads a Saturday or a Sunday, it makes no
\* download and no pacing sleep, and the row of the day is built with the five
\* instruments null and the crypto values of this attempt.
WeekendShortCircuit ==
    (inst.today # Null /\ EsFinDeSemana(inst.today)) =>
        /\ \A t \in tickers : inst.descargas[t] = 0
        /\ inst.sleeps = 0
        /\ Len(df_hoy) = 1
        /\ \A t \in tickers : df_hoy[1][t] = Null
        /\ \A c \in CryptoCols : df_hoy[1][c] = data_bitcoin[c] /\ df_hoy[1][c] # Null
        /\ fallo_en # "obtener"

WeekendShortCircuitWitness ==
    /\ inst.today # Null /\ EsFinDeSemana(inst.today)
    /\ pc = "persistir"

\* C13: when the crypto fetch fails, the attempt has built no row and merged
\* nothing into the loaded table, has not queried the instruments, has run no
\* stage after obtener_data_hoy, and ends failed.
CryptoFetchFatal ==
    (fallo_en = "obtener" /\ data_bitcoin = <<>>) =>
        /\ df_hoy = <<>>
        /\ df = file.tabla
        /\ inst = InstCero
        /\ contactos = 1
        /\ etapas = <<"cargar", "obtener">>
        /\ stats.fallos >= 1
        /\ pc \in {"except", "inicio", "agotado", "limpiar", "exit"}

CryptoFetchFatalWitness ==
    /\ fallo_en = "obtener" /\ data_bitcoin = <<>>
    /\ pc = "except"
    /\ df # <<>>

\* C14: on a business day the row of the day is built after exactly one
\* download per instrument; every instrument field is the first value of its
\* own response, null exactly when that response was empty, and the attempt
\* goes on.
PartialAvailability ==
    (inst.today # Null /\ ~EsFinDeSemana(inst.today) /\ df_hoy # <<>>) =>
        /\ \A t \in tickers : inst.descargas[t] = 1
        /\ Len(df_hoy) = 1
        /\ \A t \in tickers : df_hoy[1][t] = inst.respuestas[t]
        /\ \A c \in CryptoCols : df_hoy[1][c] = data_bitcoin[c]
        /\ fallo_en # "obtener"

PartialAvailabilityWitness ==
    /\ inst.today # Null /\ ~EsFinDeSemana(inst.today) /\ df_hoy # <<>>
    /\ inst.respuestas["stock_index_sp500"] = Null
    /\ \A t \in tickers \ {"stock_index_sp500"} : df_hoy[1][t] # Null
    /\ pc = "persistir"

\* no null of t comes, in date order, after a non-null value of its column
SinHuecos(t) ==
    \A i \in 1..Len(t) : \A j \in 1..Len(t) : \A c \in CryptoCols \cup tickers :
        (t[j].date < t[i].date /\ t[j][c] # Null) => t[i][c] # Null

\* C15: a readable persisted table has one row per date at most, and no null
\* that is preceded, in date order, by a non-null value of the same column.
TableInvariants ==
    file.ok => UnaFilaPorFecha(file.tabla) /\ SinHuecos(file.tabla)

\* C16 as stated: a run that has ended has read the persisted file exactly once.
LoadOncePerRun ==
    pc \in {"done", "agotado", "limpiar", "exit"} => stats.cargas = 1

\* C16: cargar_data_existente reads the persisted file exactly once in every
\* attempt, so a run has read it as many times as it has started attempts, the
\* attempt whose read is still to come left out; three times at most.
LoadOncePerAttempt ==
    /\ stats.cargas = stats.intentos - (IF pc = "cargar" THEN 1 ELSE 0)
    /\ stats.cargas <= MaxIntentos

LoadOncePerAttemptWitness ==
    /\ pc = "done"
    /\ stats.intentos = 2
    /\ stats.cargas = 2

\* C17: every failed attempt is followed by one critical log and one backoff
\* sleep before the run does anything else: outside the handler the sleeps made
\* are as many as the failed attempts, an attempt under way is preceded by one
\* sleep per earlier attempt, and the final warning comes after the third sleep.
BackoffEveryFailure ==
    /\ stats.sleeps = stats.fallos - (IF pc = "except" THEN 1 ELSE 0)
    /\ stats.sleeps = stats.criticos
    /\ pc \notin {"except", "agotado", "limpiar", "exit"} => stats.sleeps = intento - 1
    /\ pc = "agotado" => stats.sleeps = MaxIntentos /\ stats.avisos = 0
    /\ stats.avisos = 1 => stats.sleeps = MaxIntentos
    /\ pc = "except" => ~ENABLED (IniciarIntento \/ Agotado \/ Limpiar)

BackoffEveryFailureWitness ==
    /\ pc = "limpiar"
    /\ stats.avisos = 1
    /\ stats.sleeps = MaxIntentos
    /\ stats.fallos = MaxIntentos

\* C18: the date of the row built by obtener_data_hoy is the date on which
\* retorna_data_instrumentos took its weekend decision, so the row has its
\* instruments short-circuited to null exactly when its own date is a Saturday
\* or a Sunday.
DateConsistency ==
    df_hoy # <<>> =>
        /\ inst.today = df_hoy[1].date
        /\ (\A t \in tickers : inst.descargas[t] = 0) <=> EsFinDeSemana(df_hoy[1].date)

\* C19: for a table T with one row per date and a new row of date D, the
\* reconciled table has exactly the dates of T and D, one row each, and every
\* non-null value of a row of T of another date than D is in the row of that
\* date of the reconciled table.
NoHistoryLost ==
    (rc.paso >= 1 /\ UnaFilaPorFecha(rc.T)) =>
        /\ FechasDe(rc.R1) = FechasDe(rc.T) \cup {rc.fila.date}
        /\ Len(rc.R1) = Cardinality(FechasDe(rc.T) \cup {rc.fila.date})
        /\ \A i \in 1..Len(rc.T) : \A c \in Columns :
              (rc.T[i].date # rc.fila.date /\ rc.T[i][c] # Null) =>
                  \E k \in 1..Len(rc.R1) :
                      rc.R1[k].date = rc.T[i].date /\ rc.R1[k][c] = rc.T[i][c]

\* a row of a date T already has, for a T of two dates
NoHistoryLostWitness ==
    /\ rc.paso >= 1 /\ UnaFilaPorFecha(rc.T)
    /\ Len(rc.T) = MaxHist
    /\ rc.fila.date \in FechasDe(rc.T)
    /\ Len(rc.R1) = Len(rc.T)

\* the name is log_actualiza_db_<YYYY-MM-DD>.log
NombreDeLog(a) ==
    \E f \in FechasLog : a.name = Prefijo \o <<Fe(f)>> \o Sufijo

Eliminadas == logs.carpeta0 \ logs.carpeta

\* C20 as stated: the cleanup removes an entry if and only if it is a regular
\* file named log_actualiza_db_<YYYY-MM-DD>.log dated more than 15 days before
\* today.
CleanupOnlyDatedLogs ==
    logs.hecho =>
        \A a \in logs.carpeta0 :
            a \in Eliminadas <=>
                (a.is_file /\ NombreDeLog(a) /\ logs.hoy - fecha_log(a).fecha > dias_limite)

\* C20: the cleanup removes nothing but regular files whose name starts with
\* log_actualiza_db_, ends with .log and has, as the text between its third
\* underscore and the next one (or the end), a date more than 15 days before
\* today once every ".log" is taken out of it; it removes each of them whose
\* unlink does not fail; an entry whose date does not parse, or whose unlink
\* fails, is counted as an error and keeps no other entry from being processed;
\* the cleanup adds nothing to the folder.
CleanupOldLogs ==
    logs.hecho =>
        /\ logs.carpeta \subseteq logs.carpeta0
        /\ \A a \in Eliminadas :
              /\ a.is_file
              /\ startswith(a.name, Prefijo) /\ endswith(a.name, Sufijo)
              /\ \E f \in FechasLog :
                    /\ logs.hoy - f > dias_limite
                    /\ \E resto \in {Sufijo, Sufijo \o Sufijo, <<Tx("_"), Tx("x")>> \o Sufijo} :
                          a.name = Prefijo \o <<Fe(f)>> \o resto
        /\ logs.eliminados = Cardinality(Eliminadas)
        /\ Cardinality({a \in logs.carpeta0 : ParaBorrar(a, logs.hoy)})
              = logs.eliminados + logs.errores
                  - Cardinality({a \in logs.carpeta0 : FechaError(a)})
        /\ logs.errores = 0 =>
              \A a \in logs.carpeta0 :
                  (a.is_file /\ NombreDeLog(a)
                     /\ logs.hoy - fecha_log(a).fecha > dias_limite) => a \in Eliminadas

\* an old log is removed from a folder that also holds a log whose date does
\* not parse
CleanupOldLogsWitness ==
    /\ logs.hecho
    /\ logs.errores = 1
    /\ \E a \in Eliminadas : NombreDeLog(a) /\ logs.hoy - fecha_log(a).fecha = dias_limite + 1
    /\ \E a \in logs.carpeta : FechaError(a)

====
